---- MODULE Spec2Model ----
(***************************************************************************)
(* The batched (SIMD-wide) velocity contact constraint of the solver:      *)
(* WVelocityConstraint::generate / warmstart / solve / writeback_impulses  *)
(* of src/dynamics/solver/velocity_constraint_wide.rs, 2D build (dim2).    *)
(*                                                                         *)
(* Scalars are f32 in the code.  The model computes on the integer grid:   *)
(* every input is an integer, sums and products are exact, and the one     *)
(* operation that leaves the grid, the product by r = 1/(...), rounds to   *)
(* the nearest grid value as an f32 product rounds to the nearest float.   *)
(* A SimdFloat is a function Lanes -> Int, a Vector a pair <<x, y>>, an    *)
(* angular vector (2D) a scalar, a Rust array or Vec a function on 0..n-1. *)
(***************************************************************************)
EXTENDS Integers, Sequences, FiniteSets, TLC

\* ---------------------------------------------------------------- sizes
DIM == 2
MAX_MANIFOLD_POINTS == 2

\* bounds of the model: the lanes of a batch, the batches, the active points
\* of a manifold, the operations of a run
SIMD_WIDTH == 2
NumGroups == 2
MaxPoints == 3
MaxSteps == 3

Lanes == 0 .. SIMD_WIDTH - 1
Tangents == 0 .. DIM - 2
Groups == 0 .. NumGroups - 1
NumManifolds == NumGroups * SIMD_WIDTH
NumBodies == 2 * NumManifolds
ManifoldIds == 0 .. NumManifolds - 1
BodyIds == 0 .. NumBodies - 1

\* ------------------------------------------------------------ arithmetic
Abs(x) == IF x < 0 THEN -x ELSE x

simd_max(a, b) == IF a >= b THEN a ELSE b

simd_min(a, b) == IF a <= b THEN a ELSE b

\* simba's packed clamp: the lower bound first, then the upper bound.
simd_clamp(x, lo, hi) == simd_min(simd_max(x, lo), hi)

\* x / d rounded to the nearest grid value (ties away from zero), d > 0.
RoundDiv(x, d) == IF x >= 0 THEN (2 * x + d) \div (2 * d) ELSE -((2 * (-x) + d) \div (2 * d))

\* elt.r * x, where the field r holds the denominator of 1 / (im1 + im2 + ...).
MulR(r, x) == RoundDiv(x, r)

VZero == <<0, 0>>

VAdd(a, b) == <<a[1] + b[1], a[2] + b[2]>>

VSub(a, b) == <<a[1] - b[1], a[2] - b[2]>>

VNeg(a) == <<-a[1], -a[2]>>

VScale(a, s) == <<a[1] * s, a[2] * s>>

Dot(a, b) == a[1] * b[1] + a[2] * b[2]

\* Vector2.gcross(Vector2): the 2D perp product.
GCrossVV(a, b) == a[1] * b[2] - a[2] * b[1]

\* scalar.gcross(Vector2): an angular velocity crossed with a lever arm.
GCrossSV(w, v) == <<-(v[2] * w), v[1] * w>>

\* Vector2::orthonormal_basis: the one tangent of a 2D normal.
orthonormal_basis(d) == [j \in Tangents |-> <<-d[2], d[1]>>]

\* AngularInertia::transform_vector in 2D: the scalar sqrt inverse inertia.
transform_vector(ii, x) == ii * x

\* rotations by quarter turns keep the grid
Rot(k, v) == CASE k % 4 = 0 -> v
               [] k % 4 = 1 -> <<-v[2], v[1]>>
               [] k % 4 = 2 -> <<-v[1], -v[2]>>
               [] OTHER -> <<v[2], -v[1]>>

IsoMul(a, b) == [rot |-> (a.rot + b.rot) % 4, tr |-> VAdd(a.tr, Rot(a.rot, b.tr))]

IsoPoint(a, p) == VAdd(Rot(a.rot, p), a.tr)

IsoVec(a, v) == Rot(a.rot, v)

\* --------------------------------------------------------------- Vec<T>
Len0(v) == Cardinality(DOMAIN v)

Push(v, x) == [i \in 0 .. Len0(v) |-> IF i < Len0(v) THEN v[i] ELSE x]

EmptyVec == [i \in {} |-> 0]

\* ---------------------------------------------------------------- state
VARIABLES
    params,           \* IntegrationParameters: inv_dt, restitution_velocity_threshold, warmstart_coeff
    bodies,           \* RigidBodySet: body handle -> body
    manifolds,        \* manifolds_all: ContactManifoldIndex -> ContactManifold (active contacts)
    out_constraints,  \* Vec<AnyVelocityConstraint>
    mj_lambdas,       \* the velocity delta buffer: slot -> DeltaVel
    nsolves,          \* per constraint slot: solve calls since it was generated
    last,             \* the last operation and the state it started from
    steps,            \* operations so far
    th                \* the solver threads of the parallel pass

vars == <<params, bodies, manifolds, out_constraints, mj_lambdas, nsolves, last, steps, th>>

\* ---------------------------------------------------------------- scene
\* How the manifolds pair the bodies: every manifold with two bodies of its
\* own, neighbouring manifolds sharing a body, or a manifold between two
\* colliders of one body.
Pairings == {"distinct", "chain", "self"}

Vels == <<(<<-2, 1>>), (<<-1, 1>>), (<<1, -1>>)>>

IdentityIso == [rot |-> 0, tr |-> VZero]

BodyPairOf(pairing, m) ==
    CASE pairing = "distinct" -> [body1 |-> 2 * m, body2 |-> 2 * m + 1]
      [] pairing = "chain" -> [body1 |-> m, body2 |-> m + 1]
      [] OTHER -> [body1 |-> m, body2 |-> m]

BodyOf(b, vsel) ==
    [ mass_properties |-> [inv_mass |-> 1 + (b % 2)],
      world_inv_inertia_sqrt |-> (b \div 2) % 2,
      linvel |-> IF b % 2 = 0 THEN Vels[vsel] ELSE VZero,
      angvel |-> IF b % 4 = 2 THEN 1 ELSE 0,
      position |-> [rot |-> b % 2, tr |-> <<b, 0>>],
      world_com |-> <<b, 0>>,
      active_set_offset |-> b ]

PointOf(m, k) ==
    [ local_p1 |-> <<1, k>>,
      local_p2 |-> <<0, k>>,
      dist |-> k - 1,
      impulse |-> IF k % 2 = 0 THEN 2 ELSE -1,
      tangent_impulse |-> 1 - 2 * (m % 2) ]

ManifoldOf(pairing, m, n) ==
    [ body_pair |-> BodyPairOf(pairing, m),
      delta1 |-> IdentityIso,
      delta2 |-> [rot |-> m % 2, tr |-> VZero],
      local_n1 |-> <<-1, 0>>,
      friction |-> 1 - (m % 2),
      restitution |-> IF m % 3 = 2 THEN 0 ELSE 1,
      warmstart_multiplier |-> IF m % 3 = 1 THEN 0 ELSE 1,
      constraint_index |-> 0,
      points |-> [k \in 0 .. n - 1 |-> PointOf(m, k)] ]

num_active_contacts(manifold) == Len0(manifold.points)

ZeroDeltaVel == [linear |-> VZero, angular |-> 0]

NoOp == [op |-> "none"]

Idle == [pc |-> "idle"]

SceneInit ==
    /\ params = [inv_dt |-> 2, restitution_velocity_threshold |-> 1, warmstart_coeff |-> 1]
    /\ \E pairing \in Pairings, vsel \in 1 .. Len(Vels) :
       \E n \in 0 .. MaxPoints :
          /\ bodies = [b \in BodyIds |-> BodyOf(b, vsel)]
          /\ manifolds = [m \in ManifoldIds |->
                            ManifoldOf(pairing, m, (n + m \div SIMD_WIDTH) % (MaxPoints + 1))]
    /\ mj_lambdas = [s \in BodyIds |-> ZeroDeltaVel]

\* ------------------------------------------------------------- generate
ZeroPart ==
    [ gcross1 |-> [ii \in Lanes |-> 0],
      gcross2 |-> [ii \in Lanes |-> 0],
      rhs |-> [ii \in Lanes |-> 0],
      impulse |-> [ii \in Lanes |-> 0],
      r |-> [ii \in Lanes |-> 0] ]

ZeroElement == [normal_part |-> ZeroPart, tangent_parts |-> [j \in Tangents |-> ZeroPart]]

\* let use_restitution = rhs.simd_le(-restitution_velocity_threshold)
UseRestitutionStrict(rhs, restitution_velocity_threshold) == rhs < -restitution_velocity_threshold

UseRestitution(rhs, restitution_velocity_threshold) == rhs <= -restitution_velocity_threshold

\* The normal part's rhs, lines 158-162, from the normal relative velocity v.
NormalRhs(v, restitution, restitution_velocity_threshold, dist, inv_dt) ==
    LET rhs_with_restitution == v + v * restitution
        rhs == IF UseRestitution(v, restitution_velocity_threshold) THEN rhs_with_restitution ELSE v
    IN  rhs + simd_max(dist, 0) * inv_dt

\* let num_points = manifold_points[0].len().min(MAX_MANIFOLD_POINTS)
ChunkLen(n, l) == simd_min(n - l, MAX_MANIFOLD_POINTS)

\* manifold_contact_id: l, the first point of the chunk.
PointOffsetChunkIndex(l) == l \div MAX_MANIFOLD_POINTS

PointOffset(l) == l

\* Per lane: the manifold m with its bodies bs, and the contact point pt.
CollPos1(m, bs) == IsoMul(bs[m.body_pair.body1].position, m.delta1)

CollPos2(m, bs) == IsoMul(bs[m.body_pair.body2].position, m.delta2)

ForceDir1(m, bs) == IsoVec(CollPos1(m, bs), VNeg(m.local_n1))

Dp1(m, bs, pt) == VSub(IsoPoint(CollPos1(m, bs), pt.local_p1), bs[m.body_pair.body1].world_com)

Dp2(m, bs, pt) == VSub(IsoPoint(CollPos2(m, bs), pt.local_p2), bs[m.body_pair.body2].world_com)

Vel1(m, bs, pt) ==
    VAdd(bs[m.body_pair.body1].linvel, GCrossSV(bs[m.body_pair.body1].angvel, Dp1(m, bs, pt)))

Vel2(m, bs, pt) ==
    VAdd(bs[m.body_pair.body2].linvel, GCrossSV(bs[m.body_pair.body2].angvel, Dp2(m, bs, pt)))

\* (vel1 - vel2).dot(&dir)
RelVelAlong(m, bs, pt, dir) == Dot(VSub(Vel1(m, bs, pt), Vel2(m, bs, pt)), dir)

\* The constraint built by one iteration of the chunk loop (lines 116-200).
\* ms: the manifolds of the lanes; l: the chunk's first point.
GenerateConstraint(par, manifold_id, ms, bs, l) ==
    LET rbs1 == [ii \in Lanes |-> bs[ms[ii].body_pair.body1]]
        rbs2 == [ii \in Lanes |-> bs[ms[ii].body_pair.body2]]
        im1 == [ii \in Lanes |-> rbs1[ii].mass_properties.inv_mass]
        im2 == [ii \in Lanes |-> rbs2[ii].mass_properties.inv_mass]
        ii1 == [ii \in Lanes |-> rbs1[ii].world_inv_inertia_sqrt]
        ii2 == [ii \in Lanes |-> rbs2[ii].world_inv_inertia_sqrt]
        force_dir1 == [ii \in Lanes |-> ForceDir1(ms[ii], bs)]
        warmstart_coeff == [ii \in Lanes |-> ms[ii].warmstart_multiplier * par.warmstart_coeff]
        num_points == ChunkLen(num_active_contacts(ms[0]), l)
        pt(ii, k) == ms[ii].points[l + k]
        Part(k, dir, isNormal) ==
            LET gcross1 == [ii \in Lanes |->
                              transform_vector(ii1[ii], GCrossVV(Dp1(ms[ii], bs, pt(ii, k)), dir[ii]))]
                gcross2 == [ii \in Lanes |->
                              transform_vector(ii2[ii], GCrossVV(Dp2(ms[ii], bs, pt(ii, k)), VNeg(dir[ii])))]
                v == [ii \in Lanes |-> RelVelAlong(ms[ii], bs, pt(ii, k), dir[ii])]
            IN  [ gcross1 |-> gcross1,
                  gcross2 |-> gcross2,
                  rhs |-> [ii \in Lanes |->
                             IF isNormal
                             THEN NormalRhs(v[ii], ms[ii].restitution,
                                            par.restitution_velocity_threshold,
                                            pt(ii, k).dist, par.inv_dt)
                             ELSE v[ii]],
                  impulse |-> [ii \in Lanes |->
                                 (IF isNormal THEN pt(ii, k).impulse ELSE pt(ii, k).tangent_impulse)
                                 * warmstart_coeff[ii]],
                  r |-> [ii \in Lanes |->
                           im1[ii] + im2[ii] + gcross1[ii] * gcross1[ii] + gcross2[ii] * gcross2[ii]] ]
        tangents1 == [ii \in Lanes |-> orthonormal_basis(force_dir1[ii])]
    IN  [ dir1 |-> force_dir1,
          elements |-> [k \in 0 .. MAX_MANIFOLD_POINTS - 1 |->
                          IF k < num_points
                          THEN [ normal_part |-> Part(k, force_dir1, TRUE),
                                 tangent_parts |-> [j \in Tangents |->
                                    Part(k, [ii \in Lanes |-> tangents1[ii][j]], FALSE)] ]
                          ELSE ZeroElement],
          num_contacts |-> num_points,
          im1 |-> im1,
          im2 |-> im2,
          limit |-> [ii \in Lanes |-> ms[ii].friction],
          mj_lambda1 |-> [ii \in Lanes |-> rbs1[ii].active_set_offset],
          mj_lambda2 |-> [ii \in Lanes |-> rbs2[ii].active_set_offset],
          manifold_id |-> manifold_id,
          manifold_contact_id |-> PointOffset(l) ]

\* The instances of one generate call, in the order the chunk loop builds them.
RECURSIVE GenerateFrom(_, _, _, _, _)
GenerateFrom(par, manifold_id, ms, bs, l) ==
    IF l >= num_active_contacts(ms[0])
    THEN << >>
    ELSE <<GenerateConstraint(par, manifold_id, ms, bs, l)>>
         \o GenerateFrom(par, manifold_id, ms, bs, l + MAX_MANIFOLD_POINTS)

\* Where the nth instance of a call goes: appended (push), or at the slot
\* manifolds[0].constraint_index + l / MAX_MANIFOLD_POINTS with l its chunk start.
OutIndex(out, constraint_index, l, push) ==
    IF push THEN Len0(out) ELSE constraint_index + l \div MAX_MANIFOLD_POINTS

RECURSIVE Emit(_, _, _, _, _)
Emit(out, cs, constraint_index, push, nth) ==
    IF nth >= Len(cs)
    THEN out
    ELSE LET c == cs[nth + 1]
             at == OutIndex(out, constraint_index, nth * MAX_MANIFOLD_POINTS, push)
         IN  Emit(IF push THEN Push(out, c) ELSE [out EXCEPT ![at] = c],
                  cs, constraint_index, push, nth + 1)

GroupManifoldIds(g) == [ii \in Lanes |-> g * SIMD_WIDTH + ii]

GroupManifolds(g) == [ii \in Lanes |-> manifolds[GroupManifoldIds(g)[ii]]]

\* The end of a chunk iteration, lines 202-207: the instances cs built by the
\* call are pushed, or written over the slots recorded for the group.
Place(g, push, cs) ==
    LET manifold_id == GroupManifoldIds(g)
        ms == GroupManifolds(g)
        base == IF push THEN Len0(out_constraints) ELSE ms[0].constraint_index
        emitted == {base + n : n \in 0 .. Len(cs) - 1}
    IN  /\ steps < MaxSteps
        \* structurally valid input: the lanes hold the same number of active contacts
        /\ \A ii \in Lanes : num_active_contacts(ms[ii]) = num_active_contacts(ms[0])
        \* update mode: the recorded slots hold this group's instances (unchanged topology)
        /\ ~push => \A n \in 0 .. Len(cs) - 1 :
                       /\ base + n \in DOMAIN out_constraints
                       /\ out_constraints[base + n].manifold_id = manifold_id
                       /\ out_constraints[base + n].manifold_contact_id = cs[n + 1].manifold_contact_id
        /\ out_constraints' = Emit(out_constraints, cs, base, push, 0)
        \* the caller records where a pushed manifold's first instance goes
        /\ manifolds' = IF push
                        THEN [m \in ManifoldIds |->
                                IF \E ii \in Lanes : manifold_id[ii] = m
                                THEN [manifolds[m] EXCEPT !.constraint_index = base]
                                ELSE manifolds[m]]
                        ELSE manifolds
        /\ nsolves' = [i \in DOMAIN out_constraints' |->
                         IF i \in emitted \/ i \notin DOMAIN nsolves THEN 0 ELSE nsolves[i]]
        /\ last' = [op |-> "generate", ci |-> base, g |-> g, push |-> push, emitted |-> emitted,
                    cs0 |-> out_constraints, buf0 |-> mj_lambdas, man0 |-> manifolds]
        /\ steps' = steps + 1
        /\ UNCHANGED <<params, bodies, mj_lambdas, th>>

\* generate(params, manifold_id, manifolds, bodies, out_constraints, push)
Generate(g, push) ==
    Place(g, push, GenerateFrom(params, GroupManifoldIds(g), GroupManifolds(g), bodies, 0))

\* ---------------------------------------------------- the delta buffer
\* The buffer entry of lane ii's body (1 or 2): self.mj_lambda1[ii] / self.mj_lambda2[ii].
BufIndexByLane(c, body, ii) == ii

BufIndex(c, body, ii) == IF body = 1 THEN c.mj_lambda1[ii] ELSE c.mj_lambda2[ii]

\* array![|ii| mj_lambdas[self.mj_lambdaN[ii] as usize]; SIMD_WIDTH]
Gather(buf, c, body) == [ii \in Lanes |-> buf[BufIndex(c, body, ii)]]

\* for ii in 0..SIMD_WIDTH { mj_lambdas[self.mj_lambdaN[ii]] = w.extract(ii) }, from lane ii on.
RECURSIVE Scatter(_, _, _, _, _)
Scatter(buf, c, body, w, ii) ==
    IF ii >= SIMD_WIDTH
    THEN buf
    ELSE Scatter([buf EXCEPT ![BufIndex(c, body, ii)] = w[ii]], c, body, w, ii + 1)

\* -self.im2: body 2 receives the opposite linear impulse.
Im2Signed(c, ii) == -c.im2[ii]

\* One impulse dl along dirs applied to the working deltas of both bodies:
\* linear += dir * (im * dl), angular += gcross * dl, body 2 with -im2.
ApplyImpulse(st, c, dirs, elt, dl) ==
    [st EXCEPT
       !.l1 = [ii \in Lanes |->
                 [linear |-> VAdd(st.l1[ii].linear, VScale(dirs[ii], c.im1[ii] * dl[ii])),
                  angular |-> st.l1[ii].angular + elt.gcross1[ii] * dl[ii]]],
       !.l2 = [ii \in Lanes |->
                 [linear |-> VAdd(st.l2[ii].linear, VScale(dirs[ii], Im2Signed(c, ii) * dl[ii])),
                  angular |-> st.l2[ii].angular + elt.gcross2[ii] * dl[ii]]]]

TangentDirs(c, j) == [ii \in Lanes |-> orthonormal_basis(c.dir1[ii])[j]]

\* ------------------------------------------------------------ warmstart
RECURSIVE WarmstartTangents(_, _, _)
WarmstartTangents(st, i, j) ==
    IF j >= DIM - 1
    THEN st
    ELSE LET elt == st.c.elements[i].tangent_parts[j]
         IN  WarmstartTangents(ApplyImpulse(st, st.c, TangentDirs(st.c, j), elt, elt.impulse), i, j + 1)

\* One iteration of the loop of lines 230-249.
WarmstartPoint(st, i) ==
    LET elt == st.c.elements[i].normal_part
    IN  WarmstartTangents(ApplyImpulse(st, st.c, st.c.dir1, elt, elt.impulse), i, 0)

RECURSIVE WarmstartPass(_, _)
WarmstartPass(st, i) ==
    IF i >= st.c.num_contacts THEN st ELSE WarmstartPass(WarmstartPoint(st, i), i + 1)

\* The working copies mj_lambda1, mj_lambda2 of lines 212-228 and 262-278.
Load(c, buf) == [c |-> c, l1 |-> Gather(buf, c, 1), l2 |-> Gather(buf, c, 2)]

\* The two store loops of lines 251-258 and 322-329.
Store(st, buf) == Scatter(Scatter(buf, st.c, 1, st.l1, 0), st.c, 2, st.l2, 0)

WarmstartFn(c, buf) == Store(WarmstartPass(Load(c, buf), 0), buf)

Warmstart(ci) ==
    /\ steps < MaxSteps
    /\ ci \in DOMAIN out_constraints
    /\ mj_lambdas' = WarmstartFn(out_constraints[ci], mj_lambdas)
    /\ last' = [op |-> "warmstart", ci |-> ci, g |-> 0, push |-> FALSE, emitted |-> {},
                cs0 |-> out_constraints, buf0 |-> mj_lambdas, man0 |-> manifolds]
    /\ steps' = steps + 1
    /\ UNCHANGED <<params, bodies, manifolds, out_constraints, nsolves, th>>

\* ---------------------------------------------------------------- solve
\* The constraint violation along dirs: lines 288-292 and 308-311.
DImpulse(st, dirs, elt) ==
    [ii \in Lanes |->
        Dot(dirs[ii], st.l1[ii].linear) + elt.gcross1[ii] * st.l1[ii].angular
        - Dot(dirs[ii], st.l2[ii].linear) + elt.gcross2[ii] * st.l2[ii].angular
        + elt.rhs[ii]]

\* let limit = self.limit * normal_elt.impulse
FrictionLimitNoCoefficient(c, i) == [ii \in Lanes |-> c.elements[i].normal_part.impulse[ii]]

FrictionLimit(c, i) == [ii \in Lanes |-> c.limit[ii] * c.elements[i].normal_part.impulse[ii]]

\* (..).simd_clamp(-limit, limit)
FrictionProjectUnclamped(x, limit) == x

FrictionProject(x, limit) == simd_clamp(x, -limit, limit)

\* (..).simd_max(SimdFloat::zero())
NormalProjectUnclamped(x) == x

NormalProject(x) == simd_max(x, 0)

\* The update stored but not applied to the working deltas.
SolveTangentNotApplied(st, i, j) ==
    LET elt == st.c.elements[i].tangent_parts[j]
        new_impulse == [ii \in Lanes |->
                          FrictionProject(elt.impulse[ii]
                                          - MulR(elt.r[ii], DImpulse(st, TangentDirs(st.c, j), elt)[ii]),
                                          FrictionLimit(st.c, i)[ii])]
    IN  [st EXCEPT !.c.elements[i].tangent_parts[j].impulse = new_impulse]

\* The body of the loop over j, lines 287-301.
SolveTangent(st, i, j) ==
    LET elt == st.c.elements[i].tangent_parts[j]
        dirs == TangentDirs(st.c, j)
        dimpulse == DImpulse(st, dirs, elt)
        limit == FrictionLimit(st.c, i)
        new_impulse == [ii \in Lanes |->
                          FrictionProject(elt.impulse[ii] - MulR(elt.r[ii], dimpulse[ii]), limit[ii])]
        dlambda == [ii \in Lanes |-> new_impulse[ii] - elt.impulse[ii]]
        st2 == [st EXCEPT !.c.elements[i].tangent_parts[j].impulse = new_impulse]
    IN  ApplyImpulse(st2, st.c, dirs, elt, dlambda)

\* One iteration of the non-penetration loop, lines 306-320.
SolveNormalPoint(st, i) ==
    LET elt == st.c.elements[i].normal_part
        dimpulse == DImpulse(st, st.c.dir1, elt)
        new_impulse == [ii \in Lanes |->
                          NormalProject(elt.impulse[ii] - MulR(elt.r[ii], dimpulse[ii]))]
        dlambda == [ii \in Lanes |-> new_impulse[ii] - elt.impulse[ii]]
        st2 == [st EXCEPT !.c.elements[i].normal_part.impulse = new_impulse]
    IN  ApplyImpulse(st2, st.c, st.c.dir1, elt, dlambda)

\* The per-point order of a sequential-impulse solver: the point's normal
\* right after its tangents.
SolvePointInterleaved(st, i) == SolveNormalPoint(SolveTangent(st, i, 0), i)

RECURSIVE SolveTangents(_, _, _)
SolveTangents(st, i, j) ==
    IF j >= DIM - 1 THEN st ELSE SolveTangents(SolveTangent(st, i, j), i, j + 1)

\* One iteration of the friction loop, lines 281-303.
SolveFrictionPoint(st, i) == SolveTangents(st, i, 0)

RECURSIVE FrictionPass(_, _)
FrictionPass(st, i) ==
    IF i >= st.c.num_contacts THEN st ELSE FrictionPass(SolveFrictionPoint(st, i), i + 1)

RECURSIVE NormalPass(_, _)
NormalPass(st, i) ==
    IF i >= st.c.num_contacts THEN st ELSE NormalPass(SolveNormalPoint(st, i), i + 1)

\* The sweep of one solve call on the working copy: friction first, then normals.
Sweep(st) == NormalPass(FrictionPass(st, 0), 0)

\* solve(&mut self, mj_lambdas): the constraint and the buffer after the call.
SolveFn(c, buf) ==
    LET st == Sweep(Load(c, buf))
    IN  [c |-> st.c, buf |-> Store(st, buf)]

Solve(ci) ==
    /\ steps < MaxSteps
    /\ ci \in DOMAIN out_constraints
    /\ LET res == SolveFn(out_constraints[ci], mj_lambdas)
       IN  /\ out_constraints' = [out_constraints EXCEPT ![ci] = res.c]
           /\ mj_lambdas' = res.buf
    /\ nsolves' = [nsolves EXCEPT ![ci] = @ + 1]
    /\ last' = [op |-> "solve", ci |-> ci, g |-> 0, push |-> FALSE, emitted |-> {},
                cs0 |-> out_constraints, buf0 |-> mj_lambdas, man0 |-> manifolds]
    /\ steps' = steps + 1
    /\ UNCHANGED <<params, bodies, manifolds, th>>

\* ------------------------------------------------------------ writeback
\* active_contacts[k_base + k]
WritebackIndexNoBase(c, k) == k

WritebackIndex(c, k) == c.manifold_contact_id + k

\* impulses[ii], tangent_impulses[ii]: lane ii of element k's impulses.
WritebackValueLane0(c, k, ii) ==
    [ impulse |-> c.elements[k].normal_part.impulse[0],
      tangent_impulse |-> c.elements[k].tangent_parts[0].impulse[0] ]

WritebackValue(c, k, ii) ==
    [ impulse |-> c.elements[k].normal_part.impulse[ii],
      tangent_impulse |-> c.elements[k].tangent_parts[0].impulse[ii] ]

\* The body of the loop over ii, lines 341-356 (dim2).
WritebackLane(mans, c, k, ii) ==
    LET m == c.manifold_id[ii]
        w == WritebackValue(c, k, ii)
    IN  [mans EXCEPT ![m].points[WritebackIndex(c, k)] =
            [@ EXCEPT !.impulse = w.impulse, !.tangent_impulse = w.tangent_impulse]]

RECURSIVE WritebackLanes(_, _, _, _)
WritebackLanes(mans, c, k, ii) ==
    IF ii >= SIMD_WIDTH THEN mans ELSE WritebackLanes(WritebackLane(mans, c, k, ii), c, k, ii + 1)

RECURSIVE WritebackFrom(_, _, _)
WritebackFrom(mans, c, k) ==
    IF k >= c.num_contacts THEN mans ELSE WritebackFrom(WritebackLanes(mans, c, k, 0), c, k + 1)

WritebackFn(c, mans) == WritebackFrom(mans, c, 0)

Writeback(ci) ==
    /\ steps < MaxSteps
    /\ ci \in DOMAIN out_constraints
    /\ manifolds' = WritebackFn(out_constraints[ci], manifolds)
    /\ last' = [op |-> "writeback", ci |-> ci, g |-> 0, push |-> FALSE, emitted |-> {},
                cs0 |-> out_constraints, buf0 |-> mj_lambdas, man0 |-> manifolds]
    /\ steps' = steps + 1
    /\ UNCHANGED <<params, bodies, out_constraints, mj_lambdas, nsolves, th>>

\* ------------------------------------------------- the sequential program
Init ==
    /\ SceneInit
    /\ out_constraints = EmptyVec
    /\ nsolves = EmptyVec
    /\ last = NoOp
    /\ steps = 0
    /\ th = [t \in {} |-> Idle]

Next ==
    \/ \E g \in Groups, push \in BOOLEAN : Generate(g, push)
    \/ \E ci \in DOMAIN out_constraints : Warmstart(ci)
    \/ \E ci \in DOMAIN out_constraints : Solve(ci)
    \/ \E ci \in DOMAIN out_constraints : Writeback(ci)

Spec == Init /\ [][Next]_vars


\* ------------------------------------------- the parallel solver pass
\* Two threads each run one solve or warmstart call on an instance of their
\* own (&mut self), sharing the delta buffer without synchronisation.  A
\* call is: the loads of lines 212-228 / 262-278 in source order (body 1
\* linear lanes, body 1 angular lanes, body 2 linear lanes, body 2 angular
\* lanes), the loop iterations on the working copies, and the stores of
\* lines 251-258 / 322-329 in source order (per lane linear then angular,
\* body 1 then body 2).
ThreadIds == {1, 2}

Fields == <<"linear", "angular">>

\* The q-th load: which body, field and lane.
LoadBody(q) == 1 + (q \div (2 * SIMD_WIDTH))

LoadField(q) == Fields[1 + ((q \div SIMD_WIDTH) % 2)]

LoadLane(q) == q % SIMD_WIDTH

\* The q-th store: which body, lane and field.
StoreBody(q) == 1 + (q \div (2 * SIMD_WIDTH))

StoreLane(q) == (q % (2 * SIMD_WIDTH)) \div 2

StoreField(q) == Fields[1 + (q % 2)]

ZeroLanes == [ii \in Lanes |-> 0]

ZeroWork == [ii \in Lanes |-> ZeroDeltaVel]

\* The instances of all groups, pushed group after group.
RECURSIVE GenerateAll(_, _, _, _)
GenerateAll(par, mans, bs, g) ==
    IF g < 0
    THEN EmptyVec
    ELSE LET out == GenerateAll(par, mans, bs, g - 1)
             ids == GroupManifoldIds(g)
             cs == GenerateFrom(par, ids, [ii \in Lanes |-> mans[ids[ii]]], bs, 0)
         IN  Emit(out, cs, Len0(out), TRUE, 0)

StartThread(ci, op, c) ==
    [ pc |-> "load", ci |-> ci, op |-> op, q |-> 0, i |-> 0,
      l1 |-> ZeroWork, l2 |-> ZeroWork,      \* the working copies mj_lambda1, mj_lambda2
      ld1 |-> ZeroWork, ld2 |-> ZeroWork,    \* what the loads read
      c0 |-> c,                              \* the instance when the call started
      lim |-> [k \in 0 .. MAX_MANIFOLD_POINTS - 1 |-> ZeroLanes] ]  \* `limit` of each friction iteration

ParInit ==
    /\ params = [inv_dt |-> 2, restitution_velocity_threshold |-> 1, warmstart_coeff |-> 1]
    /\ bodies = [b \in BodyIds |-> BodyOf(b, 1)]
    \* every manifold between two bodies of its own; group g with MaxPoints - 1 + g points
    /\ manifolds = [m \in ManifoldIds |->
                      ManifoldOf("distinct", m, (MaxPoints - 1 + m \div SIMD_WIDTH) % (MaxPoints + 1))]
    /\ out_constraints = GenerateAll(params, manifolds, bodies, NumGroups - 1)
    /\ mj_lambdas = [s \in BodyIds |-> ZeroDeltaVel]
    /\ nsolves = [i \in DOMAIN out_constraints |-> 0]
    /\ steps = 0
    /\ last = [op |-> "pass", ci |-> 0, g |-> 0, push |-> TRUE, emitted |-> {},
               cs0 |-> out_constraints, buf0 |-> mj_lambdas, man0 |-> manifolds]
    /\ \E c1 \in DOMAIN out_constraints, c2 \in DOMAIN out_constraints :
       \E op1 \in {"solve", "warmstart"}, op2 \in {"solve", "warmstart"} :
          /\ c1 < c2
          /\ th = [t \in ThreadIds |->
                     IF t = 1 THEN StartThread(c1, op1, out_constraints[c1])
                     ELSE StartThread(c2, op2, out_constraints[c2])]

\* Where a thread goes after the last load / after iteration i of a loop.
AfterLoad(op, n) ==
    IF n = 0 THEN "store" ELSE IF op = "solve" THEN "friction" ELSE "warm"

AfterIteration(pc, i, n) ==
    IF i + 1 < n THEN [pc |-> pc, i |-> i + 1]
    ELSE IF pc = "friction" THEN [pc |-> "normal", i |-> 0]
    ELSE [pc |-> "store", i |-> 0]

\* One read of a buffer entry's field into the working copy.
ParLoad(t) ==
    LET me == th[t]
        c == out_constraints[me.ci]
        body == LoadBody(me.q)
        f == LoadField(me.q)
        ii == LoadLane(me.q)
        slot == BufIndex(c, body, ii)
        val == IF f = "linear" THEN mj_lambdas[slot].linear ELSE mj_lambdas[slot].angular
        w1 == IF body # 1 THEN me.l1
              ELSE IF f = "linear" THEN [me.l1 EXCEPT ![ii].linear = val]
              ELSE [me.l1 EXCEPT ![ii].angular = val]
        w2 == IF body # 2 THEN me.l2
              ELSE IF f = "linear" THEN [me.l2 EXCEPT ![ii].linear = val]
              ELSE [me.l2 EXCEPT ![ii].angular = val]
        lastq == me.q + 1 >= 4 * SIMD_WIDTH
    IN  /\ me.pc = "load"
        /\ th' = [th EXCEPT ![t] =
                    [me EXCEPT !.l1 = w1, !.l2 = w2, !.ld1 = w1, !.ld2 = w2,
                               !.q = IF lastq THEN 0 ELSE me.q + 1,
                               !.pc = IF lastq THEN AfterLoad(me.op, c.num_contacts) ELSE "load"]]
        /\ UNCHANGED <<params, bodies, manifolds, out_constraints, mj_lambdas, nsolves, last, steps>>

\* One iteration of a loop of the call, on the working copies and on self.
Iterate(t, st) ==
    LET me == th[t]
        nx == AfterIteration(me.pc, me.i, st.c.num_contacts)
    IN  /\ out_constraints' = [out_constraints EXCEPT ![me.ci] = st.c]
        /\ th' = [th EXCEPT ![t] =
                    [me EXCEPT !.l1 = st.l1, !.l2 = st.l2, !.pc = nx.pc, !.i = nx.i,
                               !.lim = IF me.pc = "friction"
                                       THEN [me.lim EXCEPT ![me.i] = FrictionLimit(out_constraints[me.ci], me.i)]
                                       ELSE me.lim]]
        /\ UNCHANGED <<params, bodies, manifolds, mj_lambdas, nsolves, last, steps>>

Working(t) == [c |-> out_constraints[th[t].ci], l1 |-> th[t].l1, l2 |-> th[t].l2]

ParFriction(t) ==
    /\ th[t].pc = "friction"
    /\ Iterate(t, SolveFrictionPoint(Working(t), th[t].i))

ParNormal(t) ==
    /\ th[t].pc = "normal"
    /\ Iterate(t, SolveNormalPoint(Working(t), th[t].i))

ParWarm(t) ==
    /\ th[t].pc = "warm"
    /\ Iterate(t, WarmstartPoint(Working(t), th[t].i))

\* One write of a working copy's field to its buffer entry.
ParStore(t) ==
    LET me == th[t]
        c == out_constraints[me.ci]
        body == StoreBody(me.q)
        f == StoreField(me.q)
        ii == StoreLane(me.q)
        slot == BufIndex(c, body, ii)
        w == IF body = 1 THEN me.l1[ii] ELSE me.l2[ii]
        lastq == me.q + 1 >= 4 * SIMD_WIDTH
    IN  /\ me.pc = "store"
        /\ mj_lambdas' = IF f = "linear"
                         THEN [mj_lambdas EXCEPT ![slot].linear = w.linear]
                         ELSE [mj_lambdas EXCEPT ![slot].angular = w.angular]
        /\ th' = [th EXCEPT ![t] = [me EXCEPT !.q = IF lastq THEN 0 ELSE me.q + 1,
                                              !.pc = IF lastq THEN "done" ELSE "store"]]
        /\ UNCHANGED <<params, bodies, manifolds, out_constraints, nsolves, last, steps>>

ParNext ==
    \/ \E t \in ThreadIds : ParLoad(t)
    \/ \E t \in ThreadIds : ParFriction(t)
    \/ \E t \in ThreadIds : ParNormal(t)
    \/ \E t \in ThreadIds : ParWarm(t)
    \/ \E t \in ThreadIds : ParStore(t)

SpecPar == ParInit /\ [][ParNext]_vars

\* ================================================================ claims
ActivePoints(c) == 0 .. c.num_contacts - 1

NormalImpulse(c, k, ii) == c.elements[k].normal_part.impulse[ii]

TangentImpulse(c, k, j, ii) == c.elements[k].tangent_parts[j].impulse[ii]

\* The instance the last operation acted on, after and before it.
LastC == out_constraints[last.ci]

LastC0 == last.cs0[last.ci]

\* C1: in every instance that has been through at least one solve call since
\* it was generated, whatever its warm-started impulses and the buffer were,
\* the normal impulse of every lane and active point is >= 0.
C1_NormalImpulseNonNegative ==
    \A ci \in DOMAIN out_constraints :
        nsolves[ci] >= 1 =>
            \A k \in ActivePoints(out_constraints[ci]), ii \in Lanes :
                NormalImpulse(out_constraints[ci], k, ii) >= 0

\* A first solve call that started from a negative warm-started normal impulse
\* and from a buffer other calls had already written.
C1_Witness ==
    /\ last.op = "solve"
    /\ nsolves[last.ci] = 1
    /\ \E k \in ActivePoints(LastC0), ii \in Lanes : NormalImpulse(LastC0, k, ii) < 0
    /\ \E s \in BodyIds : last.buf0[s] # ZeroDeltaVel

\* C2 as stated: at the end of every solve call each tangential impulse t and
\* the normal impulse n of the same point, as stored at that moment, satisfy
\* -limit*n <= t <= limit*n.
C2_ConeWithCurrentNormal ==
    last.op = "solve" =>
        \A k \in ActivePoints(LastC), ii \in Lanes, j \in Tangents :
            /\ -(LastC.limit[ii] * NormalImpulse(LastC, k, ii)) <= TangentImpulse(LastC, k, j, ii)
            /\ TangentImpulse(LastC, k, j, ii) <= LastC.limit[ii] * NormalImpulse(LastC, k, ii)

\* C2 amended: at the end of every solve call each tangential impulse t
\* satisfies |t| <= limit * |n0|, n0 being the normal impulse of the same
\* point as stored when the call started (so -limit*n0 <= t <= limit*n0
\* whenever n0 >= 0).
C2_ConeWithStartNormal ==
    last.op = "solve" =>
        \A k \in ActivePoints(LastC), ii \in Lanes, j \in Tangents :
            /\ Abs(TangentImpulse(LastC, k, j, ii)) <= LastC.limit[ii] * Abs(NormalImpulse(LastC0, k, ii))
            /\ NormalImpulse(LastC0, k, ii) >= 0 =>
                 /\ -(LastC.limit[ii] * NormalImpulse(LastC0, k, ii)) <= TangentImpulse(LastC, k, j, ii)
                 /\ TangentImpulse(LastC, k, j, ii) <= LastC.limit[ii] * NormalImpulse(LastC0, k, ii)

\* A solve call that left a nonzero tangential impulse on a point whose
\* normal impulse was positive at the start and that the call changed.
C2_Witness ==
    /\ last.op = "solve"
    /\ \E k \in ActivePoints(LastC), ii \in Lanes, j \in Tangents :
          /\ NormalImpulse(LastC0, k, ii) > 0
          /\ TangentImpulse(LastC, k, j, ii) # 0
          /\ TangentImpulse(LastC, k, j, ii) # TangentImpulse(LastC0, k, j, ii)
          /\ NormalImpulse(LastC, k, ii) # NormalImpulse(LastC0, k, ii)

\* C3: in every instance that has been through at least one solve call, a
\* lane whose friction limit is 0 has every tangential impulse equal to 0.
C3_ZeroFrictionZeroTangent ==
    \A ci \in DOMAIN out_constraints :
        nsolves[ci] >= 1 =>
            \A ii \in Lanes :
                out_constraints[ci].limit[ii] = 0 =>
                    \A k \in ActivePoints(out_constraints[ci]), j \in Tangents :
                        TangentImpulse(out_constraints[ci], k, j, ii) = 0

\* A solve call on a zero-friction lane that started with a nonzero
\* warm-started tangential impulse, a nonzero tangential rhs, a positive
\* normal impulse and a written buffer.
C3_Witness ==
    /\ last.op = "solve"
    /\ \E k \in ActivePoints(LastC0), ii \in Lanes, j \in Tangents :
          /\ LastC0.limit[ii] = 0
          /\ TangentImpulse(LastC0, k, j, ii) # 0
          /\ LastC0.elements[k].tangent_parts[j].rhs[ii] # 0
          /\ NormalImpulse(LastC0, k, ii) > 0
    /\ \E s \in BodyIds : last.buf0[s] # ZeroDeltaVel

\* C4: after writeback_impulses, for every lane ii and local index
\* k < num_contacts, point manifold_contact_id + k of manifold
\* manifold_id[ii] holds exactly the instance's normal and tangential
\* impulse of element k, lane ii.
C4_WritebackExact ==
    last.op = "writeback" =>
        \A k \in ActivePoints(LastC), ii \in Lanes :
            LET pt == manifolds[LastC.manifold_id[ii]].points[LastC.manifold_contact_id + k]
            IN  /\ pt.impulse = NormalImpulse(LastC, k, ii)
                /\ pt.tangent_impulse = TangentImpulse(LastC, k, 0, ii)

\* A writeback of a solved second chunk whose lanes hold different impulses
\* and that changed what the manifold held.
C4_Witness ==
    /\ last.op = "writeback"
    /\ nsolves[last.ci] >= 1
    /\ LastC.manifold_contact_id > 0
    /\ \E k \in ActivePoints(LastC), ii \in Lanes :
          LET m == LastC.manifold_id[ii]
              p == LastC.manifold_contact_id + k
          IN  /\ manifolds[m].points[p].impulse # last.man0[m].points[p].impulse
              /\ manifolds[m].points[p].tangent_impulse # last.man0[m].points[p].tangent_impulse
              /\ NormalImpulse(LastC, k, ii) # NormalImpulse(LastC, k, 0)

\* The point indices of manifold m that writeback_impulses of instance c
\* writes: c's impulses are replaced by a mark no point holds.
WrittenPoints(c, m) ==
    LET mark == [ii \in Lanes |-> 1000]
        marked == [c EXCEPT !.elements =
                      [k \in DOMAIN c.elements |->
                          [c.elements[k] EXCEPT !.normal_part.impulse = mark]]]
        mans == WritebackFn(marked, manifolds)
    IN  {p \in DOMAIN mans[m].points : mans[m].points[p].impulse = 1000}

\* C5: after a generate call, for the manifold of every lane, with n active
\* points: the emitted instances have offsets 0, capacity, 2*capacity, ...,
\* num_contacts <= capacity, their ranges [offset, offset + num_contacts)
\* cover 0..n-1 exactly once and nothing else, none is emitted when n = 0,
\* and writeback of two different emitted instances writes disjoint points.
C5_ChunksPartitionPoints ==
    last.op = "generate" =>
        \A ii \in Lanes :
            LET m == GroupManifoldIds(last.g)[ii]
                n == num_active_contacts(manifolds[m])
                E == last.emitted
                lo(e) == out_constraints[e].manifold_contact_id
                hi(e) == lo(e) + out_constraints[e].num_contacts
            IN  /\ E \subseteq DOMAIN out_constraints
                /\ \A e \in E : out_constraints[e].manifold_id[ii] = m
                /\ {lo(e) : e \in E} = {q * MAX_MANIFOLD_POINTS : q \in 0 .. Cardinality(E) - 1}
                /\ \A e \in E : out_constraints[e].num_contacts <= MAX_MANIFOLD_POINTS
                /\ \A e \in E : hi(e) <= n
                /\ \A p \in 0 .. n - 1 : Cardinality({e \in E : lo(e) <= p /\ p < hi(e)}) = 1
                /\ n = 0 => E = {}
                /\ \A e1 \in E, e2 \in E :
                      e1 # e2 => WrittenPoints(out_constraints[e1], m)
                                 \cap WrittenPoints(out_constraints[e2], m) = {}
                /\ \A e \in E : WrittenPoints(out_constraints[e], m) = lo(e) .. hi(e) - 1

\* A generate call on manifolds with more points than one instance holds,
\* whose last chunk is not full.
C5_Witness ==
    /\ last.op = "generate"
    /\ Cardinality(last.emitted) >= 2
    /\ \E e \in last.emitted :
          /\ out_constraints[e].manifold_contact_id > 0
          /\ out_constraints[e].num_contacts < MAX_MANIFOLD_POINTS

\* The normal part's rhs of point k, lane ii of instance c as the claim
\* gives it, with restitution applied when use(v) holds.
ClaimedRhs(c, k, ii, use(_, _)) ==
    LET m == manifolds[c.manifold_id[ii]]
        pt == m.points[c.manifold_contact_id + k]
        v == RelVelAlong(m, bodies, pt, c.dir1[ii])
        f == IF use(v, params.restitution_velocity_threshold) THEN v * (1 + m.restitution) ELSE v
        bias == (IF pt.dist > 0 THEN pt.dist ELSE 0) * params.inv_dt
    IN  [rhs |-> f + bias, bias |-> bias, v |-> v, restitution |-> m.restitution]

AboveThreshold(v, threshold) == v < 0 /\ Abs(v) > threshold

AtOrAboveThreshold(v, threshold) == v <= -threshold

\* C8 as stated: generate sets the normal rhs to f(v) + max(d, 0) * inv_dt,
\* f(v) = v * (1 + restitution) exactly when v is negative with magnitude
\* above the threshold (not when the magnitude equals it), f(v) = v otherwise.
C8_RhsRestitutionAboveThreshold ==
    last.op = "generate" =>
        \A e \in last.emitted :
            \A k \in ActivePoints(out_constraints[e]), ii \in Lanes :
                out_constraints[e].elements[k].normal_part.rhs[ii]
                    = ClaimedRhs(out_constraints[e], k, ii, AboveThreshold).rhs

\* C8 amended: f(v) = v * (1 + restitution) exactly when v <= -threshold
\* (magnitude equal to the threshold included), f(v) = v otherwise; the bias
\* max(d, 0) * inv_dt is never negative.
C8_RhsRestitutionAtThreshold ==
    last.op = "generate" =>
        \A e \in last.emitted :
            \A k \in ActivePoints(out_constraints[e]), ii \in Lanes :
                LET want == ClaimedRhs(out_constraints[e], k, ii, AtOrAboveThreshold)
                IN  /\ out_constraints[e].elements[k].normal_part.rhs[ii] = want.rhs
                    /\ want.bias >= 0

\* A generate call with a point approaching at exactly the threshold speed
\* with nonzero restitution, one approaching faster, one slower or
\* separating, and a point with a positive distance.
C8_Witness ==
    /\ last.op = "generate"
    /\ \E e \in last.emitted :
       \E k \in ActivePoints(out_constraints[e]), ii \in Lanes :
          LET want == ClaimedRhs(out_constraints[e], k, ii, AtOrAboveThreshold)
          IN  /\ want.v = -params.restitution_velocity_threshold
              /\ want.restitution # 0
    /\ \E e \in last.emitted :
       \E k \in ActivePoints(out_constraints[e]), ii \in Lanes :
          LET want == ClaimedRhs(out_constraints[e], k, ii, AtOrAboveThreshold)
          IN  want.v < -params.restitution_velocity_threshold /\ want.restitution # 0
    /\ \E e \in last.emitted :
       \E k \in ActivePoints(out_constraints[e]), ii \in Lanes :
          LET want == ClaimedRhs(out_constraints[e], k, ii, AtOrAboveThreshold)
          IN  want.v > -params.restitution_velocity_threshold /\ want.bias > 0

\* ------------------------------------------------ warmstart contributions
\* What warmstart adds for lane ii to the working copy of body 1 or 2:
\* per active point, direction * (+im1 or -im2) * impulse and gcross * impulse,
\* for the normal and for every tangent.
RECURSIVE TangentContribution(_, _, _, _, _)
TangentContribution(c, ii, body, k, j) ==
    IF j >= DIM - 1
    THEN ZeroDeltaVel
    ELSE LET elt == c.elements[k].tangent_parts[j]
             t == orthonormal_basis(c.dir1[ii])[j]
             rest == TangentContribution(c, ii, body, k, j + 1)
             lin == IF body = 1 THEN VScale(t, c.im1[ii] * elt.impulse[ii])
                    ELSE VNeg(VScale(t, c.im2[ii] * elt.impulse[ii]))
             ang == IF body = 1 THEN elt.gcross1[ii] * elt.impulse[ii]
                    ELSE elt.gcross2[ii] * elt.impulse[ii]
         IN  [linear |-> VAdd(lin, rest.linear), angular |-> ang + rest.angular]

RECURSIVE RefContribution(_, _, _, _)
RefContribution(c, ii, body, k) ==
    IF k >= c.num_contacts
    THEN ZeroDeltaVel
    ELSE LET elt == c.elements[k].normal_part
             rest == RefContribution(c, ii, body, k + 1)
             tan == TangentContribution(c, ii, body, k, 0)
             lin == IF body = 1 THEN VScale(c.dir1[ii], c.im1[ii] * elt.impulse[ii])
                    ELSE VNeg(VScale(c.dir1[ii], c.im2[ii] * elt.impulse[ii]))
             ang == IF body = 1 THEN elt.gcross1[ii] * elt.impulse[ii]
                    ELSE elt.gcross2[ii] * elt.impulse[ii]
         IN  [linear |-> VAdd(VAdd(lin, tan.linear), rest.linear),
              angular |-> ang + tan.angular + rest.angular]

\* The references (lane, body) of instance c to the buffer, and to entry s.
AllRefs == Lanes \X {1, 2}

RefSlot(c, ref) == IF ref[2] = 1 THEN c.mj_lambda1[ref[1]] ELSE c.mj_lambda2[ref[1]]

RefsTo(c, s) == {ref \in AllRefs : RefSlot(c, ref) = s}

Refs(c) == {RefSlot(c, ref) : ref \in AllRefs}

\* The sum of the contributions of a set of references.
RECURSIVE SumContributions(_, _)
SumContributions(c, refs) ==
    IF refs = {}
    THEN ZeroDeltaVel
    ELSE LET ref == CHOOSE x \in refs : TRUE
             one == RefContribution(c, ref[1], ref[2], 0)
             rest == SumContributions(c, refs \ {ref})
         IN  [linear |-> VAdd(one.linear, rest.linear), angular |-> one.angular + rest.angular]

\* The reference to s that the store loops write last: body 2 after body 1,
\* and within a body the higher lane after the lower.
StoreOrder(ref) == (ref[2] - 1) * SIMD_WIDTH + ref[1]

LastRefTo(c, s) == CHOOSE ref \in RefsTo(c, s) : \A o \in RefsTo(c, s) : StoreOrder(o) <= StoreOrder(ref)

DeltaVelAdd(a, b) == [linear |-> VAdd(a.linear, b.linear), angular |-> a.angular + b.angular]

\* C7 as stated: after warmstart every referenced buffer entry equals its
\* value before the call plus the sum of the contributions of all the lanes
\* (and bodies) of the instance that reference it.
C7_EntryGetsAllContributions ==
    last.op = "warmstart" =>
        \A s \in Refs(LastC) :
            mj_lambdas[s] = DeltaVelAdd(last.buf0[s], SumContributions(LastC, RefsTo(LastC, s)))

\* What warmstart leaves instead: every referenced buffer entry equals its
\* value before the call plus the contribution (as C7 gives it: per active
\* point, normal and tangents, +im1 for body 1 and -im2 for body 2) of the
\* one reference stored to it last (body 2 after body 1, higher lane after
\* lower), which is the sum C7 states when the entry is referenced once.
C7_EntryGetsLastContribution ==
    last.op = "warmstart" =>
        \A s \in Refs(LastC) :
            LET ref == LastRefTo(LastC, s)
            IN  /\ mj_lambdas[s] = DeltaVelAdd(last.buf0[s], RefContribution(LastC, ref[1], ref[2], 0))
                /\ Cardinality(RefsTo(LastC, s)) = 1 =>
                     mj_lambdas[s] = DeltaVelAdd(last.buf0[s], SumContributions(LastC, RefsTo(LastC, s)))

\* C10: warmstart and solve leave every buffer entry the instance does not
\* reference, and every manifold, unchanged; warmstart changes no field of
\* any instance; writeback_impulses changes no buffer entry and no instance,
\* and in the manifolds only the impulse fields of points manifold_contact_id
\* .. manifold_contact_id + num_contacts - 1 of the manifolds of its lanes.
C10_Frame ==
    /\ last.op \in {"warmstart", "solve"} =>
          /\ \A s \in BodyIds \ Refs(LastC0) : mj_lambdas[s] = last.buf0[s]
          /\ manifolds = last.man0
    /\ last.op = "warmstart" => out_constraints = last.cs0
    /\ last.op = "writeback" =>
          /\ mj_lambdas = last.buf0
          /\ out_constraints = last.cs0
          /\ \A m \in ManifoldIds :
                /\ [manifolds[m] EXCEPT !.points = last.man0[m].points] = last.man0[m]
                /\ DOMAIN manifolds[m].points = DOMAIN last.man0[m].points
                /\ \A p \in DOMAIN manifolds[m].points :
                      IF /\ \E ii \in Lanes : LastC.manifold_id[ii] = m
                         /\ p \in LastC.manifold_contact_id .. LastC.manifold_contact_id + LastC.num_contacts - 1
                      THEN [manifolds[m].points[p] EXCEPT
                               !.impulse = last.man0[m].points[p].impulse,
                               !.tangent_impulse = last.man0[m].points[p].tangent_impulse]
                           = last.man0[m].points[p]
                      ELSE manifolds[m].points[p] = last.man0[m].points[p]

\* A writeback that changed a manifold's impulses, in a state where an
\* earlier warmstart or solve has written the buffer and left entries of
\* other bodies untouched, and the manifold holds points outside the range.
C10_Witness ==
    /\ last.op = "writeback"
    /\ manifolds # last.man0
    /\ \E s \in Refs(LastC) : mj_lambdas[s] # ZeroDeltaVel
    /\ \E s \in BodyIds \ Refs(LastC) : TRUE
    /\ \E ii \in Lanes :
          num_active_contacts(manifolds[LastC.manifold_id[ii]]) > LastC.num_contacts

\* ----------------------------------------------- claims on the parallel pass
SolveThreads == {t \in ThreadIds : th[t].op = "solve"}

\* Whether the friction / normal iteration of point k of thread t's call has run.
FrictionDone(t, k) ==
    \/ th[t].pc \in {"normal", "store", "done"}
    \/ th[t].pc = "friction" /\ k < th[t].i

NormalDone(t, k) ==
    \/ th[t].pc \in {"store", "done"}
    \/ th[t].pc = "normal" /\ k < th[t].i

\* The instance c with every impulse replaced by its change since c0.
ImpulseChange(c, c0) ==
    [c EXCEPT !.elements =
        [k \in DOMAIN c.elements |->
            [ normal_part |-> [c.elements[k].normal_part EXCEPT
                  !.impulse = [ii \in Lanes |-> NormalImpulse(c, k, ii) - NormalImpulse(c0, k, ii)]],
              tangent_parts |-> [j \in Tangents |->
                  [c.elements[k].tangent_parts[j] EXCEPT
                      !.impulse = [ii \in Lanes |->
                                     TangentImpulse(c, k, j, ii) - TangentImpulse(c0, k, j, ii)]]] ]]]

\* C9: within one solve call (a) no normal impulse is updated before the
\* tangential impulses of all active points are, and the iterations run in
\* point order; (b) after every iteration the working velocity deltas hold
\* what was loaded plus every impulse change made so far, so the next
\* iteration computes on applied updates; (c) the clamp bound `limit` of a
\* point's tangential update is the friction limit times that point's normal
\* impulse as it was when the call started, and bounds the stored impulse.
C9_FrictionBeforeNormalWithStartLimit ==
    \A t \in SolveThreads :
        LET me == th[t]
            c == out_constraints[me.ci]
            d == ImpulseChange(c, me.c0)
        IN  /\ \A k \in ActivePoints(c) :
                  /\ ~FrictionDone(t, k) =>
                        /\ c.elements[k].tangent_parts = me.c0.elements[k].tangent_parts
                        /\ c.elements[k].normal_part = me.c0.elements[k].normal_part
                  /\ ~NormalDone(t, k) => c.elements[k].normal_part = me.c0.elements[k].normal_part
                  /\ FrictionDone(t, k) =>
                        \A ii \in Lanes :
                            /\ me.lim[k][ii] = c.limit[ii] * NormalImpulse(me.c0, k, ii)
                            /\ \A j \in Tangents : Abs(TangentImpulse(c, k, j, ii)) <= Abs(me.lim[k][ii])
            /\ me.pc \in {"friction", "normal", "store", "done"} =>
                  \A ii \in Lanes :
                      /\ me.l1[ii] = DeltaVelAdd(me.ld1[ii], RefContribution(d, ii, 1, 0))
                      /\ me.l2[ii] = DeltaVelAdd(me.ld2[ii], RefContribution(d, ii, 2, 0))

\* A finished solve call on two points that changed tangential and normal
\* impulses, where the bound it used for a point differs from the friction
\* limit times the normal impulse the same call then stored.
C9_Witness ==
    \E t \in SolveThreads :
        LET me == th[t]
            c == out_constraints[me.ci]
        IN  /\ me.pc = "done"
            /\ c.num_contacts >= 2
            /\ \E k \in ActivePoints(c), ii \in Lanes :
                  /\ me.lim[k][ii] # c.limit[ii] * NormalImpulse(c, k, ii)
                  /\ TangentImpulse(c, k, 0, ii) # TangentImpulse(me.c0, k, 0, ii)
                  /\ TangentImpulse(c, k, 0, ii) # 0

\* The call of thread t run alone and whole on instances cs and buffer buf.
RunCall(t, cs, buf) ==
    IF th[t].op = "solve"
    THEN LET res == SolveFn(cs[th[t].ci], buf)
         IN  [cs |-> [cs EXCEPT ![th[t].ci] = res.c], buf |-> res.buf]
    ELSE [cs |-> cs, buf |-> WarmstartFn(cs[th[t].ci], buf)]

\* The two calls one after the other, thread a's first.
RunBoth(a, b) ==
    LET first == RunCall(a, last.cs0, last.buf0)
    IN  RunCall(b, first.cs, first.buf)

AllDone == \A t \in ThreadIds : th[t].pc = "done"

SharedSlots == Refs(last.cs0[th[1].ci]) \cap Refs(last.cs0[th[2].ci])

\* C6: when the two instances reference disjoint sets of buffer entries,
\* every interleaving of the loads and stores of their two calls ends with
\* the buffer and both instances as the two calls run one after the other
\* (in either order) leave them.
C6_DisjointInterleavingsAreSequential ==
    (AllDone /\ SharedSlots = {}) =>
        /\ mj_lambdas = RunBoth(1, 2).buf
        /\ out_constraints = RunBoth(1, 2).cs
        /\ mj_lambdas = RunBoth(2, 1).buf
        /\ out_constraints = RunBoth(2, 1).cs

\* C6, the shared case: both calls are done, they share an entry that call
\* a alone would change, and the entry holds what call b alone would have
\* written, which is what neither sequential order leaves: a's update is lost.
C6_Witness ==
    /\ AllDone
    /\ \E s \in SharedSlots :
       \E a \in ThreadIds, b \in ThreadIds :
          /\ a # b
          /\ RunCall(a, last.cs0, last.buf0).buf[s] # last.buf0[s]
          /\ mj_lambdas[s] = RunCall(b, last.cs0, last.buf0).buf[s]
          /\ mj_lambdas[s] # RunBoth(1, 2).buf[s]
          /\ mj_lambdas[s] # RunBoth(2, 1).buf[s]

\* The disjoint case happens: both calls done on disjoint instances, and
\* each changed the buffer.
C6_DisjointReached ==
    /\ AllDone
    /\ SharedSlots = {}
    /\ \A t \in ThreadIds : RunCall(t, last.cs0, last.buf0).buf # last.buf0

====
